---- MODULE Spec2Model ----
(***************************************************************************)
(* Model of diskflowsim.simulation.DiskPropagation.                        *)
(*                                                                         *)
(* One instance of the class is the state.  Arrays are functions over      *)
(* 0-based index ranges, as in numpy: state[t][a][s].  An attribute that   *)
(* may be None (or may not exist yet) is an optional value: None is the    *)
(* empty tuple and Some(x) the one-element tuple <<x>>.                    *)
(*                                                                         *)
(* total_convolve_rate is drawn from even integers, so that the kernel     *)
(* weight total_convolve_rate / 2 and every grid value is an integer and   *)
(* the float arithmetic of the source is exact.                            *)
(***************************************************************************)
EXTENDS Integers, Sequences, FiniteSets, TLC

VARIABLES
    r_in,                       \* self.r_in
    r_out,                      \* self.r_out
    num_anulus,                 \* self.num_anulus
    num_segments,               \* self.num_segments
    total_convolve_rate,        \* self.total_convolve_rate
    time,                       \* self.time
    initial_state,              \* self.initial_state (optional snapshot)
    state,                      \* self.state (optional history array)
    state_,                     \* self.state_ (optional masked history)
    initial_annulus_generator,  \* self.initial_annulus_generator (optional)
    call,                       \* the last call made on the instance and its log
    ret                         \* what the last call returned

vars == <<r_in, r_out, num_anulus, num_segments, total_convolve_rate, time,
          initial_state, state, state_, initial_annulus_generator, call, ret>>

----------------------------------------------------------------------------
(* Bounds of the model *)

\* largest outer radius
MaxR == 2
\* largest num_steps a caller passes
MaxSteps == 2
\* largest flow_velocity a caller passes
MaxVelocity == 2
\* pulls a generator may serve before the model stops calling
MaxPulls == 5

RadiusPairs == {p \in (1..MaxR) \X (1..MaxR) : p[1] <= p[2]}
Rates == {0, 2}
\* the generator functions a caller passes to initialize
Factories == {1}
\* num_steps a caller passes; np.zeros raises below -1, indexing fails at -1
StepInputs == (-2)..MaxSteps
\* flow_velocity a caller passes, the degenerate 0 included
VelocityInputs == 0..MaxVelocity

----------------------------------------------------------------------------
(* Optional values *)

None == <<>>
Some(x) == <<x>>
Val(o) == o[1]

----------------------------------------------------------------------------
(* The boundary source: a generator made by the caller's function *)

\* What the i-th next() of the generator made by function `factory` yields:
\* a vector of num_segments values.  Function 0 yields ones forever; every
\* other function yields values distinct for every (factory, i, s).
Source(factory, i) ==
    [s \in 0..(num_segments - 1) |->
        IF factory = 0 THEN 1 ELSE factory * (i * num_segments + s + 1)]

\* initial_annulus_generator(self.num_segments): a generator at its start
new_generator(factory) == [factory |-> factory, pos |-> 0]

----------------------------------------------------------------------------
(* numpy / scipy helpers *)

\* np.zeros allocating one timestep too few (num_steps instead of num_steps + 1)
np_zeros_short(T, A, S) ==
    [t \in 0..(T - 2) |-> [a \in 0..(A - 1) |-> [s \in 0..(S - 1) |-> 0]]]

\* np.zeros((T, A, S)) for T >= 0
np_zeros(T, A, S) ==
    [t \in 0..(T - 1) |-> [a \in 0..(A - 1) |-> [s \in 0..(S - 1) |-> 0]]]

\* np.tril in place of np.triu
tril_ones(a, s) == IF a >= s THEN 1 ELSE 0

\* np.triu(np.ones((A, S))): 1 on and above the main diagonal
triu_ones(a, s) == IF a <= s THEN 1 ELSE 0

\* a kernel that passes the segment itself through unscaled
weights_passing(j) == IF j = 0 THEN 1 ELSE total_convolve_rate \div 2

\* the two kernel taps, np.ones(2)[None, :] * total_convolve_rate / 2
weights(j) == total_convolve_rate \div 2

\* circular boundary handling (boundary="wrap") in place of zero fill
padded_wrap(row, s) == row[s % num_segments]

\* in1[a][s] with zero fill outside the array
padded(row, s) == IF s \in DOMAIN row THEN row[s] ELSE 0

\* signal.convolve2d(current_state, weights, "same") with a 1 x 2 kernel:
\* out[a][s] = weights[0] * in[a][s] + weights[1] * in[a][s - 1]
convolve2d_same(current_state) ==
    [a \in DOMAIN current_state |->
        [s \in DOMAIN current_state[a] |->
            weights(0) * padded(current_state[a], s)
          + weights(1) * padded(current_state[a], s - 1)]]

\* np.roll(x, shift=1, axis=0)
roll(x) ==
    [a \in DOMAIN x |-> x[(a - 1) % num_anulus]]

----------------------------------------------------------------------------
(* DiskPropagation._update *)

\* env is the generator and the count of _update applications so far.
\* A missing generator attribute raises AttributeError at next(...).
_update(current_state, env) ==
    IF env.gen = None
    THEN [next_state |-> current_state, env |-> env, error |-> "AttributeError"]
    ELSE LET g == Val(env.gen)
             smoothed == convolve2d_same(current_state)
             shifted == roll(smoothed)
         IN [next_state |-> [shifted EXCEPT ![0] = Source(g.factory, g.pos)],
             env |-> [gen |-> Some([g EXCEPT !.pos = @ + 1]),
                      updates |-> env.updates + 1,
                      pulls |-> Append(env.pulls, g.pos)],
             error |-> "none"]

----------------------------------------------------------------------------
(* DiskPropagation._extract_state *)

\* self.state * np.triu(np.ones((num_anulus, num_segments))), broadcast over t
_extract_state(st) ==
    [t \in DOMAIN st |->
        [a \in DOMAIN st[t] |->
            [s \in DOMAIN st[t][a] |-> st[t][a][s] * triu_ones(a, s)]]]

----------------------------------------------------------------------------
(* DiskPropagation.run_simulation *)

\* The instance as run_simulation sees it
Self ==
    [time |-> time, initial_state |-> initial_state, state |-> state,
     state_ |-> state_, gen |-> initial_annulus_generator]

\* A run in progress: the attributes it assigns (state unwrapped: the array
\* allocated by this call), the exception raised if any, and the log of the
\* call: per recorded step the number of _update applications (applied), the
\* history indices read and written, and the generator positions pulled.
StartRun(self) ==
    [time |-> self.time, initial_state |-> self.initial_state,
     state |-> self.state, state_ |-> self.state_, gen |-> self.gen,
     error |-> "none", allocated |-> FALSE,
     applied |-> <<>>, reads |-> <<>>, writes |-> <<>>, pulls |-> <<>>]

\* range(flow_velocity) in place of range(flow_velocity - 1)
inner_repeats_off_by_one(flow_velocity) == flow_velocity

\* the argument of range(flow_velocity - 1), the inner loop
inner_repeats(flow_velocity) == flow_velocity - 1

\* for _ in range(n): next_state = self._update(next_state)
\* (range(n) is empty for n <= 0)
RECURSIVE repeat_update(_, _, _)
repeat_update(u, n, done) ==
    IF done >= n \/ u.error # "none" THEN u
    ELSE repeat_update(_update(u.next_state, u.env), n, done + 1)

\* the index at which an outer iteration reads its input snapshot
read_index(m) == m.time

\* One outer iteration (lines 110-114) on run m whose state is Some(array)
loop_body(m, flow_velocity) ==
    LET arr == Val(m.state)
        rd == read_index(m)
    IN IF rd \notin DOMAIN arr
       THEN [m EXCEPT !.error = "IndexError"]
       ELSE
        LET env0 == [gen |-> m.gen, updates |-> 0, pulls |-> m.pulls]
            first == _update(arr[rd], env0)
            last == repeat_update(first, inner_repeats(flow_velocity), 0)
            t1 == m.time + 1
            ran == [m EXCEPT !.gen = last.env.gen,
                             !.pulls = last.env.pulls,
                             !.reads = Append(@, rd)]
        IN IF last.error # "none"
           THEN [ran EXCEPT !.error = last.error]
           ELSE IF t1 \notin DOMAIN arr
           THEN [ran EXCEPT !.time = t1, !.error = "IndexError",
                            !.applied = Append(@, last.env.updates)]
           ELSE [ran EXCEPT !.time = t1,
                            !.state = Some([arr EXCEPT ![t1] = last.next_state]),
                            !.applied = Append(@, last.env.updates),
                            !.writes = Append(@, t1)]

\* for _ in range(num_steps): ...
RECURSIVE run_loop(_, _, _, _)
run_loop(m, num_steps, flow_velocity, i) ==
    IF i >= num_steps \/ m.error # "none" THEN m
    ELSE run_loop(loop_body(m, flow_velocity), num_steps, flow_velocity, i + 1)

\* lines 96-100: np.zeros raises ValueError on a negative dimension, before
\* self.state is assigned
allocate(m, num_steps) ==
    IF num_steps + 1 < 0 \/ num_anulus < 0 \/ num_segments < 0
    THEN [m EXCEPT !.error = "ValueError"]
    ELSE [m EXCEPT !.state = Some(np_zeros(num_steps + 1, num_anulus, num_segments)),
                   !.allocated = TRUE]

\* seeding every annulus from the first row of the stored snapshot only
seed_from_first_row(initial) == [a \in DOMAIN initial |-> initial[0]]

\* the pulled vector stored in annulus 0 only, the other annuli left zero
seed_top_only(vector) ==
    [a \in 0..(num_anulus - 1) |->
        IF a = 0 THEN vector ELSE [s \in DOMAIN vector |-> 0]]

\* what self.state[0] = value stores: a snapshot as is, a vector broadcast
\* to every annulus
seed_from_state(initial) == initial
seed_from_pull(vector) == [a \in 0..(num_anulus - 1) |-> vector]

\* lines 104-107
seed(m) ==
    IF m.error # "none" THEN m
    ELSE
     LET arr == Val(m.state) IN
     IF m.initial_state # None
     THEN IF 0 \notin DOMAIN arr
          THEN [m EXCEPT !.error = "IndexError"]
          ELSE [m EXCEPT !.state =
                   Some([arr EXCEPT ![0] = seed_from_state(Val(m.initial_state))])]
     ELSE IF m.gen = None
          THEN [m EXCEPT !.error = "AttributeError"]
          ELSE LET g == Val(m.gen)
                   pulled == [m EXCEPT !.gen = Some([g EXCEPT !.pos = @ + 1]),
                                       !.pulls = Append(@, g.pos)]
               IN IF 0 \notin DOMAIN arr
                  THEN [pulled EXCEPT !.error = "IndexError"]
                  ELSE [pulled EXCEPT !.state =
                           Some([arr EXCEPT ![0] =
                                    seed_from_pull(Source(g.factory, g.pos))])]

\* line 115
finish(m) ==
    IF m.error # "none" THEN m
    ELSE [m EXCEPT !.state_ = Some(_extract_state(Val(m.state)))]

run_simulation(self, num_steps, flow_velocity) ==
    finish(run_loop(seed(allocate(StartRun(self), num_steps)),
                    num_steps, flow_velocity, 0))

----------------------------------------------------------------------------
(* The instance after __init__, and the calls a caller can make *)

\* the log of a call that runs no simulation
NoLog(op) ==
    [op |-> op, num_steps |-> 0, flow_velocity |-> 0, error |-> "none",
     allocated |-> FALSE, applied |-> <<>>, reads |-> <<>>, writes |-> <<>>,
     pulls |-> <<>>, factory |-> 0]

\* the log of a call that ran run_simulation(num_steps, flow_velocity) to m
RunLog(op, m, num_steps, flow_velocity, factory) ==
    [op |-> op, num_steps |-> num_steps, flow_velocity |-> flow_velocity,
     error |-> m.error, allocated |-> m.allocated, applied |-> m.applied,
     reads |-> m.reads, writes |-> m.writes, pulls |-> m.pulls,
     factory |-> factory]

\* the generator has served no more than MaxPulls values
WithinPulls(gen) == IF gen = None THEN TRUE ELSE Val(gen).pos <= MaxPulls

\* r_out - r_in in place of r_out - r_in + 1
annulus_count_short(ri, ro) == ro - ri

\* self.num_anulus = r_out - r_in + 1
annulus_count(ri, ro) == ro - ri + 1

\* the instance DiskPropagation(ri, ro, rate) right after __init__
Constructed(ri, ro, rate) ==
    /\ r_in = ri
    /\ r_out = ro
    /\ num_anulus = annulus_count(ri, ro)
    /\ num_segments = ro
    /\ total_convolve_rate = rate
    /\ time = 0
    /\ initial_state = None
    /\ state = None
    /\ state_ = None
    /\ initial_annulus_generator = None
    /\ call = NoLog("__init__")
    /\ ret = None

Init == \E p \in RadiusPairs, rate \in Rates : Constructed(p[1], p[2], rate)

Config == <<r_in, r_out, num_anulus, num_segments, total_convolve_rate>>

\* self.state[0] in place of self.state[-1]
first_slice(arr) == arr[0]

\* self.state[-1]
last_slice(arr) == arr[Cardinality(DOMAIN arr) - 1]

\* initialize warming up with num_anulus - 1 updates only
InitializeOneStepShort(factory) ==
        \E m \in {run_simulation(
                      [Self EXCEPT !.gen = Some(new_generator(factory))],
                      num_anulus - 1, 1)} :
           /\ WithinPulls(m.gen)
           /\ initial_annulus_generator' = m.gen
           /\ state' = m.state
           /\ state_' = m.state_
           /\ IF m.error = "none"
              THEN /\ initial_state' = Some(last_slice(Val(m.state)))
                   /\ time' = 0
              ELSE /\ initial_state' = m.initial_state
                   /\ time' = m.time
           /\ call' = RunLog("initialize", m, num_anulus - 1, 1, factory)
           /\ ret' = None
           /\ UNCHANGED Config

\* initialize(initial_annulus_generator), the argument being function `factory`
InitializeWith(factory) ==
        \E m \in {run_simulation(
                      [Self EXCEPT !.gen = Some(new_generator(factory))],
                      num_anulus, 1)} :
           /\ WithinPulls(m.gen)
           /\ initial_annulus_generator' = m.gen
           /\ state' = m.state
           /\ state_' = m.state_
           /\ IF m.error = "none"
              THEN /\ initial_state' = Some(last_slice(Val(m.state)))
                   /\ time' = 0
              ELSE /\ initial_state' = m.initial_state
                   /\ time' = m.time
           /\ call' = RunLog("initialize", m, num_anulus, 1, factory)
           /\ ret' = None
           /\ UNCHANGED Config

\* initialize(initial_annulus_generator)
Initialize == \E factory \in Factories : InitializeWith(factory)

\* observe(observation_func), with the identity as observation_func
Observe ==
    /\ ret' = state_
    /\ call' = NoLog("observe")
    /\ UNCHANGED <<Config, time, initial_state, state, state_,
                   initial_annulus_generator>>

\* a reset that also forgets the seeded snapshot
ResetForgetsInitialState ==
    /\ time' = 0
    /\ state' = None
    /\ state_' = None
    /\ initial_state' = None
    /\ call' = NoLog("reset")
    /\ ret' = None
    /\ UNCHANGED <<Config, initial_annulus_generator>>

\* reset()
Reset ==
    /\ time' = 0
    /\ state' = None
    /\ state_' = None
    /\ call' = NoLog("reset")
    /\ ret' = None
    /\ UNCHANGED <<Config, initial_state, initial_annulus_generator>>

\* run_simulation(num_steps, flow_velocity)
RunSimulation ==
    \E num_steps \in StepInputs, flow_velocity \in VelocityInputs :
        \E m \in {run_simulation(Self, num_steps, flow_velocity)} :
           /\ WithinPulls(m.gen)
           /\ time' = m.time
           /\ state' = m.state
           /\ state_' = m.state_
           /\ initial_state' = m.initial_state
           /\ initial_annulus_generator' = m.gen
           /\ call' = RunLog("run_simulation", m, num_steps, flow_velocity, 0)
           /\ ret' = None
           /\ UNCHANGED Config

Next ==
    \/ Initialize
    \/ Observe
    \/ Reset
    \/ RunSimulation

Spec == Init /\ [][Next]_vars

\* The scenario r_in = 1, r_out = 3, total_convolve_rate = 0 with a
\* generator yielding [1, 1, 1] forever
InitScenario == Constructed(1, 3, 0)

InitializeOnes == InitializeWith(0)

NextScenario ==
    \/ InitializeOnes
    \/ Observe
    \/ Reset
    \/ RunSimulation

SpecScenario == InitScenario /\ [][NextScenario]_vars

\* The arguments __init__ accepts: it checks nothing, so beside the valid
\* pairs also pairs with r_in > r_out, here those of a negative num_anulus
AnyRadiusPairs ==
    RadiusPairs \cup {p \in (1..(MaxR + 2)) \X (1..MaxR) : p[1] - p[2] >= 2}

InitAnyConfig ==
    \E p \in AnyRadiusPairs, rate \in Rates : Constructed(p[1], p[2], rate)

SpecAnyConfig == InitAnyConfig /\ [][Next]_vars

----------------------------------------------------------------------------
(* Properties *)

\* the last call was run_simulation
Ran == call.op = "run_simulation"
\* the last call returned without raising
Returned == call.error = "none"
\* the history array and the observed-state array, when set
history == Val(state)
observed == Val(state_)
Timesteps(arr) == Cardinality(DOMAIN arr)
Annuli == 0..(num_anulus - 1)
Segments == 0..(num_segments - 1)

\* C1: after a RunSimulation(num_steps, flow_velocity) call that returns, the
\* time cursor equals that call's num_steps, whatever calls came before it.
C1_TimeEqualsNumSteps ==
    (Ran /\ Returned) => time = call.num_steps

\* C2: after every RunSimulation call with num_steps >= 0 the history array
\* has exactly num_steps + 1 timesteps, each of shape
\* (num_annulus, num_segments), whatever flow_velocity and the earlier history.
C2_HistoryShape ==
    (Ran /\ call.num_steps >= 0) =>
        /\ state # None
        /\ DOMAIN history = 0..call.num_steps
        /\ Timesteps(history) = call.num_steps + 1
        /\ \A t \in DOMAIN history :
              /\ DOMAIN history[t] = Annuli
              /\ \A a \in Annuli : DOMAIN history[t][a] = Segments

\* C2 witness: a run with num_steps = 0 that returned on an instance whose
\* time cursor still stands at the end of an earlier, longer history.
C2_Witness ==
    /\ Ran /\ Returned
    /\ call.num_steps = 0
    /\ time > 0
    /\ Timesteps(history) = 1

\* C3: after RunSimulation completes, observed[t,a,s] is 0 where a > s and
\* history[t,a,s] where a <= s, for every timestep and every flow_velocity.
C3_ObservedMask ==
    (Ran /\ Returned) =>
        /\ state # None /\ state_ # None
        /\ DOMAIN observed = DOMAIN history
        /\ \A t \in DOMAIN history :
              /\ DOMAIN observed[t] = Annuli
              /\ \A a \in Annuli :
                    /\ DOMAIN observed[t][a] = Segments
                    /\ \A s \in Segments :
                          observed[t][a][s] =
                              IF a > s THEN 0 ELSE history[t][a][s]

\* C3 witness: a completed run whose history holds a nonzero value below the
\* diagonal (masked away) and one above it (passed through).
C3_Witness ==
    /\ Ran /\ Returned
    /\ call.flow_velocity = 2
    /\ \E t \in DOMAIN history : \E a \in Annuli : \E s \in Segments :
          a > s /\ history[t][a][s] # 0 /\ observed[t][a][s] = 0
    /\ \E t \in DOMAIN history : \E a \in Annuli : \E s \in Segments :
          a < s /\ history[t][a][s] # 0 /\ observed[t][a][s] # 0

\* C4: once initial_state is set, every RunSimulation call (num_steps >= 0)
\* leaves history[0] equal to it element for element, and RunSimulation,
\* Reset and Observe never change initial_state.
C4_SeedIsInitialState ==
    [][ /\ (call'.op \in {"run_simulation", "reset", "observe"}
               => initial_state' = initial_state)
        /\ (call'.op = "run_simulation" /\ call'.num_steps >= 0
                /\ initial_state # None
               => /\ state' # None
                  /\ Val(state')[0] = Val(initial_state)
                  /\ Val(state')[0] = Val(initial_state')) ]_vars

\* C4 witness: a run of at least one step on an initialised instance, that
\* started from a time cursor left by an earlier run, with the seed in place
\* and distinct from the snapshot that follows it.
C4_Witness ==
    /\ Ran
    /\ call.num_steps >= 1
    /\ initial_state # None
    /\ num_anulus >= 2
    /\ call.reads # <<>>
    /\ call.reads[1] >= 1
    /\ history[0] = Val(initial_state)
    /\ history[1] # history[0]

\* C5: Reset sets time to 0, clears the history and the observed state, and
\* leaves initial_state and the generator as they are; the RunSimulation
\* that follows seeds from that initial_state and its first pull is the
\* generator's next value, the one after the last pulled before Reset.
C5_ResetKeepsSeedAndSource ==
    [][ /\ (call'.op = "reset"
               => /\ time' = 0
                  /\ state' = None
                  /\ state_' = None
                  /\ initial_state' = initial_state
                  /\ initial_annulus_generator' = initial_annulus_generator)
        /\ (call.op = "reset" /\ call'.op = "run_simulation"
                /\ initial_state # None /\ call'.num_steps >= 1
               => /\ call'.error = "none"
                  /\ Val(state')[0] = Val(initial_state)
                  /\ call'.pulls # <<>>
                  /\ call'.pulls[1] = Val(initial_annulus_generator).pos
                  /\ (call'.flow_velocity <= 1 =>
                         Val(state')[1][0] =
                             Source(Val(initial_annulus_generator).factory,
                                    Val(initial_annulus_generator).pos))) ]_vars

\* C5 witness: a completed run that began at time 0 (so after a Reset) on a
\* generator already pulled from by an earlier run: its first pull lies
\* beyond the warm-up's pulls.
C5_Witness ==
    /\ Ran /\ Returned
    /\ call.num_steps >= 1
    /\ call.reads[1] = 0
    /\ call.pulls[1] > num_anulus + 1
    /\ history[0] = Val(initial_state)

\* the sum of a sequence of numbers
RECURSIVE Sum(_)
Sum(seq) == IF seq = <<>> THEN 0 ELSE Head(seq) + Sum(Tail(seq))

\* C6: an Initialize that returns has applied the Step Function exactly
\* num_annulus times, through run_simulation(num_annulus) at flow_velocity 1,
\* has set initial_state to the last snapshot of that run, and leaves time 0.
C6_InitializeWarmUp ==
    (call.op = "initialize" /\ Returned) =>
        /\ call.num_steps = num_anulus
        /\ call.flow_velocity = 1
        /\ Len(call.applied) = num_anulus
        /\ Sum(call.applied) = num_anulus
        /\ call.writes = [i \in 1..num_anulus |-> i]
        /\ initial_state = Some(history[num_anulus])
        /\ time = 0

\* C6 witness: Initialize has returned on an instance of two annuli, and the
\* snapshot it kept differs from the warm-up's seed.
C6_Witness ==
    /\ call.op = "initialize" /\ Returned
    /\ num_anulus = 2
    /\ initial_state # None
    /\ Val(initial_state) # history[0]

\* One Step Function application on cur, pulling value p of generator f
StepAt(cur, f, p) ==
    _update(cur, [gen |-> Some([factory |-> f, pos |-> p]),
                  updates |-> 0, pulls |-> <<>>]).next_state

\* n Step Function applications in a chain from cur, pulling p, p + 1, ...
RECURSIVE Chain(_, _, _, _)
Chain(cur, f, p, n) ==
    IF n = 0 THEN cur ELSE Chain(StepAt(cur, f, p), f, p + 1, n - 1)

\* 1 + max(flow_velocity - 1, 0)
PerStep(flow_velocity) ==
    1 + (IF flow_velocity - 1 > 0 THEN flow_velocity - 1 ELSE 0)

\* C7: every recorded step of a run applies the Step Function exactly
\* 1 + max(flow_velocity - 1, 0) times in a chain and stores only the last
\* result: history[t + 1] is that chain's result from history[t], and the
\* history holds no intermediate sub-step.
C7_ChainPerRecordedStep ==
    (call.op \in {"run_simulation", "initialize"} /\ call.allocated) =>
        LET cnt == PerStep(call.flow_velocity)
            seeded == Len(call.pulls) - Sum(call.applied)
        IN /\ \A i \in 1..Len(call.applied) : call.applied[i] = cnt
           /\ seeded \in {0, 1}
           /\ Timesteps(history) = call.num_steps + 1
           /\ \A i \in 1..Len(call.writes) :
                 /\ call.writes[i] = call.reads[i] + 1
                 /\ history[call.writes[i]] =
                       Chain(history[call.reads[i]],
                             Val(initial_annulus_generator).factory,
                             call.pulls[seeded + (i - 1) * cnt + 1],
                             cnt)

\* C7 witness: flow_velocity = 2, num_steps = 1 on two annuli with smoothing:
\* the history has two timesteps, and history[1] is not the first
\* application's result.
C7_Witness ==
    /\ Ran /\ Returned
    /\ call.flow_velocity = 2
    /\ call.num_steps = 1
    /\ num_anulus = 2
    /\ total_convolve_rate = 2
    /\ Timesteps(history) = 2
    /\ call.applied = <<2>>
    /\ history[1] # StepAt(history[0],
                           Val(initial_annulus_generator).factory,
                           call.pulls[1])

\* C8: a RunSimulation call with flow_velocity <= 0 or num_steps < 0 raises
\* before the history array is allocated, and leaves the history, the
\* observed state, time and the generator as they were.
C8_DegenerateRejected ==
    [][ (call'.op = "run_simulation"
            /\ (call'.flow_velocity <= 0 \/ call'.num_steps < 0))
        => /\ call'.error # "none"
           /\ ~call'.allocated
           /\ state' = state
           /\ state_' = state_
           /\ time' = time
           /\ initial_annulus_generator' = initial_annulus_generator ]_vars

\* C9: after Initialize returns, the history array and the observed-state
\* array do not hold the warm-up run.
C9_WarmUpDiscarded ==
    (call.op = "initialize" /\ Returned) => (state = None /\ state_ = None)

\* the scenario's run: RunSimulation(1) at the default flow_velocity has
\* returned on the initialised instance, started at time 0
ScenarioRun ==
    /\ Ran /\ Returned
    /\ r_in = 1 /\ r_out = 3 /\ total_convolve_rate = 0
    /\ Val(initial_annulus_generator).factory = 0
    /\ call.num_steps = 1
    /\ call.flow_velocity = 1
    /\ call.reads = <<0>>
OnesRow == [s \in Segments |-> 1]
ZeroRow == [s \in Segments |-> 0]

\* C11 as stated: in the scenario the smoothing leaves the snapshot as it is,
\* and history[1] has annulus 0 = [1, 1, 1], annulus 1 = history[0][2] and
\* annulus 2 = history[0][1].
C11_SmoothingNoOp ==
    ScenarioRun =>
        /\ convolve2d_same(history[0]) = history[0]
        /\ history[1][0] = OnesRow
        /\ history[1][1] = history[0][2]
        /\ history[1][2] = history[0][1]

\* C11 amended: in the scenario the smoothing zeroes every row: history[1]
\* has annulus 0 = [1, 1, 1] and annuli 1 and 2 all zero, although annulus 0
\* of history[0] is [1, 1, 1]; they equal history[0][2] and history[0][1]
\* because those rows are zero as well.
C11_SmoothingZeroes ==
    ScenarioRun =>
        /\ history[0][0] = OnesRow
        /\ history[0][1] = ZeroRow
        /\ history[0][2] = ZeroRow
        /\ history[1][0] = OnesRow
        /\ history[1][1] = ZeroRow
        /\ history[1][2] = ZeroRow

\* C11 witness: the scenario's run has happened.
C11_Witness ==
    /\ ScenarioRun
    /\ Timesteps(history) = 2
    /\ history[1][0] = OnesRow

\* C12: an invalid configuration fails at construction, so no instance with
\* r_in > r_out, num_annulus < 1 or num_segments < 1 ever has Initialize or
\* RunSimulation called on it.
C12_InvalidNeverRuns ==
    call.op \in {"initialize", "run_simulation"} =>
        /\ r_in <= r_out
        /\ num_anulus >= 1
        /\ num_segments >= 1

\* C13: for every instance constructed with r_in <= r_out,
\* num_annulus = r_out - r_in + 1 and num_segments = r_out hold after
\* construction and after every call, and no call changes r_in, r_out,
\* num_annulus, num_segments or total_convolve_rate.
C13_ConfigFixed ==
    /\ num_anulus = r_out - r_in + 1
    /\ num_segments = r_out
    /\ [][ /\ r_in' = r_in
           /\ r_out' = r_out
           /\ num_anulus' = num_anulus
           /\ num_segments' = num_segments
           /\ total_convolve_rate' = total_convolve_rate
           /\ num_anulus' = r_out' - r_in' + 1
           /\ num_segments' = r_out' ]_vars

\* C13 witness: a run of at least one step has returned on an instance of
\* two annuli and two segments.
C13_Witness ==
    /\ Ran /\ Returned
    /\ call.num_steps >= 1
    /\ r_in = 1 /\ r_out = 2
    /\ num_anulus = 2 /\ num_segments = 2

\* k = total_convolve_rate / 2
K == total_convolve_rate \div 2

\* segment s of a row, with segment -1 taken as 0
At(row, s) == IF s < 0 THEN 0 ELSE row[s]

\* the snapshot C14 states for one application on cur with `pulled` drawn
ExpectedNext(cur, pulled) ==
    [a \in Annuli |->
        IF a = 0 THEN pulled
        ELSE [s \in Segments |-> K * (cur[a - 1][s] + At(cur[a - 1], s - 1))]]

\* n applications in a chain, drawing values p, p + 1, ... of generator f
RECURSIVE ExpectedAfter(_, _, _, _)
ExpectedAfter(cur, f, p, n) ==
    IF n = 0 THEN cur
    ELSE ExpectedAfter(ExpectedNext(cur, Source(f, p)), f, p + 1, n - 1)

\* C14: one Step Function application on cur returns next with next[0] the
\* freshly pulled vector and next[a][s] = k * (cur[a-1][s] + cur[a-1][s-1])
\* for a >= 1, cur[a-1][-1] being 0; nothing of cur's last annulus is in
\* next, and cur is left as it was.  Checked on every recorded step, whose
\* applications are chained.
C14_StepFunction ==
    (call.op \in {"run_simulation", "initialize"} /\ call.allocated) =>
        LET cnt == PerStep(call.flow_velocity)
            seeded == Len(call.pulls) - Sum(call.applied)
        IN /\ \A i \in 1..Len(call.writes) :
                 history[call.writes[i]] =
                     ExpectedAfter(history[call.reads[i]],
                                   Val(initial_annulus_generator).factory,
                                   call.pulls[seeded + (i - 1) * cnt + 1],
                                   cnt)
           /\ (Ran /\ call.writes # <<>> /\ call.reads[1] = 0
                  => history[0] = Val(initial_state))

\* C14 witness: a single application with k = 1 on two annuli of two
\* segments: annulus 1 of the result blends annulus 0 of its input.
C14_Witness ==
    /\ Ran /\ Returned
    /\ call.flow_velocity = 1
    /\ call.num_steps >= 1
    /\ num_anulus = 2 /\ num_segments = 2
    /\ total_convolve_rate = 2
    /\ history[1][0] = Source(Val(initial_annulus_generator).factory,
                              call.pulls[1])
    /\ history[1][1][0] = history[0][0][0]
    /\ history[1][1][1] = history[0][0][1] + history[0][0][0]
    /\ history[0][1][1] # 0
    /\ history[1][1][1] # history[0][0][1]

\* max(flow_velocity, 1)
AtLeastOne(flow_velocity) == IF flow_velocity > 1 THEN flow_velocity ELSE 1

\* C15: every Step Function application draws exactly one value, so a run
\* that returns has drawn num_steps * max(flow_velocity, 1) values when
\* initial_state was set and one more when it was not: the seed, drawn
\* first and stored in every annulus of history[0].  Values are drawn in
\* the generator's order, and Reset and Observe draw none.
C15_PullsPerRun ==
    [][ /\ (call'.op \in {"reset", "observe"}
               => initial_annulus_generator' = initial_annulus_generator)
        /\ (call'.op \in {"run_simulation", "initialize"}
                /\ call'.error = "none"
               => LET steps == call'.num_steps
                                   * AtLeastOne(call'.flow_velocity)
                      seedpull == IF initial_state = None THEN 1 ELSE 0
                      start == IF call'.op = "initialize" THEN 0
                               ELSE Val(initial_annulus_generator).pos
                      gen1 == Val(initial_annulus_generator')
                  IN /\ Sum(call'.applied) = steps
                     /\ Len(call'.pulls) = steps + seedpull
                     /\ call'.pulls =
                            [j \in 1..(steps + seedpull) |-> start + j - 1]
                     /\ gen1.pos = start + steps + seedpull
                     /\ (seedpull = 1 =>
                            \A a \in Annuli :
                                Val(state')[0][a]
                                    = Source(gen1.factory, start))) ]_vars

\* C15 witness: the run inside the first Initialize on two annuli has
\* returned: three values drawn, the first one in both annuli of history[0].
C15_Witness ==
    /\ call.op = "initialize" /\ Returned
    /\ num_anulus = 2
    /\ call.pulls = <<0, 1, 2>>
    /\ call.applied = <<1, 1>>
    /\ history[0][0] = history[0][1]
    /\ history[0][1] = Source(call.factory, 0)

\* the smoothing of one row: k * (v[s] + v[s-1]), v[-1] being 0
SmoothRow(v) == [s \in Segments |-> K * (v[s] + At(v, s - 1))]

\* the smoothing applied n times
RECURSIVE SmoothTimes(_, _)
SmoothTimes(v, n) == IF n = 0 THEN v ELSE SmoothTimes(SmoothRow(v), n - 1)

\* C16: after Initialize on a fresh instance of N annuli, p0 being the seed
\* and p1..pN the values drawn by the N warm-up steps, annulus a of
\* initial_state is the smoothing applied a times to p(N-a), so no entry
\* derives from the seed p0; one step earlier the innermost annulus is still
\* the smoothing applied N-1 times to the seed.
C16_WarmUpFlushesSeed ==
    [][ (call'.op = "initialize" /\ call'.error = "none"
            /\ initial_state = None)
        => LET N == num_anulus
               P(j) == Source(call'.factory, j)
           IN /\ \A a \in Annuli :
                     Val(initial_state')[a] = SmoothTimes(P(N - a), a)
              /\ Val(state')[N - 1][N - 1] = SmoothTimes(P(0), N - 1) ]_vars

\* C16 witness: the first Initialize has returned on two annuli with k = 1:
\* the inner annulus of initial_state is the smoothed first step value, not
\* the smoothed seed.
C16_Witness ==
    /\ call.op = "initialize" /\ Returned
    /\ num_anulus = 2
    /\ total_convolve_rate = 2
    /\ call.pulls = <<0, 1, 2>>
    /\ Val(initial_state)[0] = Source(call.factory, 2)
    /\ Val(initial_state)[1] = SmoothRow(Source(call.factory, 1))
    /\ Val(initial_state)[1] # SmoothRow(Source(call.factory, 0))
    /\ history[1][1] = SmoothRow(Source(call.factory, 0))

\* the upper-triangular mask applied to a history array
Masked(h) ==
    [t \in DOMAIN h |->
        [a \in DOMAIN h[t] |->
            [s \in DOMAIN h[t][a] |-> IF a > s THEN 0 ELSE h[t][a][s]]]]

\* C17: between calls, also after a call that raised, the observed-state
\* array is unset exactly when the history array is unset, and otherwise is
\* the upper-triangular mask of the current history array.
C17_ObservedNeverStale ==
    /\ (state_ = None) <=> (state = None)
    /\ (state # None /\ state_ # None) => observed = Masked(history)

\* C18: a RunSimulation(num_steps, flow_velocity) call on an initialised
\* instance writes each history index 1..num_steps exactly once, in
\* increasing order and nowhere else, whatever calls preceded it, and every
\* step reads a slice that was seeded or written before.
C18_WritesInOrder ==
    (Ran /\ call.num_steps >= 0 /\ initial_state # None) =>
        /\ call.writes = [i \in 1..call.num_steps |-> i]
        /\ \A i \in 1..Len(call.reads) :
              \/ call.reads[i] = 0
              \/ \E j \in 1..Len(call.writes) :
                    j < i /\ call.writes[j] = call.reads[i]

====
